---- MODULE Spec2Model ----
(***************************************************************************)
(* Session-scoped file/record lifecycle of the image optimizer:            *)
(* src/src/app/api/convert/route.ts (POST, GET, DELETE).                   *)
(*                                                                         *)
(* A string is a sequence of tokens.  A token is one character, or a run   *)
(* of characters that every regular expression of the code treats alike:   *)
(* an extension word ("png"), the literal "_thumb", or a run of 14 digits  *)
(* (a timestamp DDMMYYYYHHMMSS, written "T1", "T2", ...).                  *)
(*                                                                         *)
(* The handlers are async functions on one event loop: the code between    *)
(* two awaits runs atomically, and other requests may run at every await.  *)
(* One action is one await-delimited block of a handler; a continuation    *)
(* that runs in the same microtask chain (Promise.all settling, the next   *)
(* phase's synchronous prefix, the commit) belongs to the step that        *)
(* triggers it.                                                            *)
(***************************************************************************)
EXTENDS Integers, Sequences, FiniteSets, TLC

\* ---------------------------------------------------------------- bounds
\* work started in one run: one unit per request or external removal, one
\* more per further item of a batch, one more when another request is still
\* in flight
MaxOps == 3
MaxClock == 2      \* distinct clock seconds read in one run
MaxItems == 2      \* items (uploads + re-convert pairs) in one batch
\* the longest raw name given to normalizeFileName on its own, in tokens
MaxName == 2
MaxMade == 3       \* queue entries created in one run

\* ------------------------------------------------------------ constants
ALLOWED_FORMATS == {"webp", "jpeg", "png"}
ALLOWED_MIME == {"image/jpeg", "image/png", "image/webp"}

ORIGINAL == <<"original">>
OUTPUT == <<"output">>

\* the 14-digit runs the clock can produce
TsNames == <<"T1", "T2", "T3", "T4">>
TsToks == {TsNames[i] : i \in 1..Len(TsNames)}

\* tokens matched by [a-zA-Z0-9._-]
SafeToks == {"a", "b", ".", "_", "-", "png", "jpg", "webp", "jpeg", "gif",
             "img", "_thumb", "1"} \cup TsToks

\* ------------------------------------------------------ naming helpers
\* the element of a one-element set: {e(x) : x \in {arg}} computes arg
\* once, however often e uses it
The(S) == CHOOSE x \in S : TRUE

\* a replace that leaves the separator "/" in place
normalizeFileName_m(name) ==
    [i \in 1..Len(name) |->
        IF name[i] \in SafeToks \cup {"/"} THEN name[i] ELSE "_"]

\* name.replace(/[^a-zA-Z0-9._-]/g, '_')
normalizeFileName(name) ==
    The({[i \in 1..Len(n) |-> IF n[i] \in SafeToks THEN n[i] ELSE "_"] :
            n \in {name}})

\* index of the last "." of name, 0 when there is none
LastDot(name) ==
    LET ds == {i \in 1..Len(name) : name[i] = "."}
    IN IF ds = {} THEN 0 ELSE CHOOSE i \in ds : \A j \in ds : j <= i

\* file.name.split('.').pop() || 'img'
origExtOf(name) ==
    LET p == LastDot(name)
        last == SubSeq(name, p + 1, Len(name))
    IN IF last = <<>> THEN <<"img">> ELSE last

\* name.replace(/\.[^/.]+$/, '')
StripExt(name) ==
    LET p == LastDot(name)
    IN IF p > 0 /\ p < Len(name)
          /\ \A j \in (p + 1)..Len(name) : name[j] # "/"
       THEN SubSeq(name, 1, p - 1)
       ELSE name

\* name.replace(/_\d{14}$/, '')
StripTs(name) ==
    LET n == Len(name)
    IN IF n >= 2 /\ name[n - 1] = "_" /\ name[n] \in TsToks
       THEN SubSeq(name, 1, n - 2)
       ELSE name

safeBaseOf(name) == normalizeFileName(StripExt(name))

safeOrigFileName(name) == safeBaseOf(name) \o <<".">> \o origExtOf(name)

\* `${base}.${format}`
outputFileNameOf(base, format) == base \o <<".", format>>

\* `${base}_thumb.webp`
thumbnailOf(base) == base \o <<"_thumb", ".", "webp">>

\* normalizeFileName(to.replace(/\.[^/.]+$/, '').replace(/_\d{14}$/, ''))
\* followed by `${baseName}_${timestamp}`
reconvertBaseOf(to, ts) ==
    normalizeFileName(StripTs(StripExt(to))) \o <<"_", TsNames[ts]>>

\* the segments of a path string, empty segments dropped
RECURSIVE Segments(_)
Segments(p) ==
    LET ss == {i \in 1..Len(p) : p[i] = "/"}
    IN IF p = <<>> THEN <<>>
       ELSE IF ss = {} THEN <<p>>
       ELSE LET k == CHOOSE i \in ss : \A j \in ss : i <= j
            IN (IF k = 1 THEN <<>> ELSE <<SubSeq(p, 1, k - 1)>>)
               \o The({Segments(q) : q \in {SubSeq(p, k + 1, Len(p))}})

\* path.normalize: "." is dropped, ".." drops the segment before it; a
\* ".." with nothing before it stays and leads out of the root
RECURSIVE Normalize(_, _)
Normalize(acc, rest) ==
    IF rest = <<>> THEN acc
    ELSE LET next == IF Head(rest) = <<".">> THEN acc
                     ELSE IF Head(rest) = <<".", ".">>
                             /\ acc # <<>> /\ acc[Len(acc)] # <<".", ".">>
                     THEN SubSeq(acc, 1, Len(acc) - 1)
                     ELSE Append(acc, Head(rest))
         IN The({Normalize(a, t) : a \in {next}, t \in {Tail(rest)}})

\* path.join(TMP_ROOT, session, area, name), relative to TMP_ROOT: a
\* sequence of segments
Join(session, area, name) ==
    The({Normalize(<<>>, Segments(s) \o <<area>> \o Segments(n)) :
            s \in {session}, n \in {name}})

\* path.join(TMP_ROOT, sessionId, area, name); sessionId is used as sent
PathOf(sid, area, name) == Join(sid, area, name)
DirOf(sid, area) == Join(sid, area, <<>>)

\* ------------------------------------------------------------- inputs
SessionIds == {<<"s1">>}
Formats == {"webp", "jpeg", "gif"}

NameA == <<"a", ".", "png">>
NameB == <<"a", " ", "b", ".", "jpg">>
NameC == <<"a", "_", "b", ".", "jpg">>
NameMissing == <<"b", ".", "png">>

\* a fresh upload: File.name and File.type; its bytes are an image that
\* sharp can decode
Upload(name, mime) ==
    [kind |-> "upload", name |-> name, to |-> <<>>, mime |-> mime]
Uploads ==
    {Upload(NameA, "image/png"), Upload(NameB, "image/jpeg"),
     Upload(NameC, "image/jpeg"), Upload(NameA, "text/plain")}

\* a re-convert pair {from, to}
Pair(from, to) ==
    [kind |-> "reconvert", name |-> from, to |-> to, mime |-> ""]

\* ----------------------------------------------------------- the state
VARIABLES
    sessions,   \* table sessions: the session_id values that have a row
    files,      \* table files: a set of rows, unique on (session_id, file_path)
    dirs,       \* directories under TMP_ROOT, as paths
    disk,       \* regular files under TMP_ROOT: path -> content
    req,        \* the requests in flight, one per slot
    clock,      \* the second last read from the clock, an index into TsNames
    nOps,       \* work started so far, see MaxOps
    queue,      \* ImageQueue: the queue state, a sequence of entries
    isConverting, \* ImageQueue: the isConverting state
    calls,      \* ImageQueue: the fetch calls that have not resolved yet
    made        \* queue entries created so far, see MaxMade

\* the state of the component in the browser
client == <<queue, isConverting, calls, made>>

vars == <<sessions, files, dirs, disk, req, clock, nOps, client>>

Reqs == {1, 2}

\* The bytes of a file: <<the upload they stem from, what they are>>, the
\* latter "raw" for the upload as sent, a format for an output of sharp and
\* "thumb" for a thumbnail.  NoBytes: nothing was read.
NoBytes == <<>>

\* Buffer.from(await file.arrayBuffer()): uploads of different names carry
\* different images
Raw(name) == <<name, "raw">>

\* sharp(inputBuffer).webp() / .jpeg() / .png() and .toBuffer()
ConvertTo(buf, format) == <<buf[1], format>>

\* sharp(inputBuffer).resize(128, 128, { fit: 'cover' }).webp().toBuffer()
ThumbOf(buf) == <<buf[1], "thumb">>

\* (await fs.stat(p)).size: different bytes are taken to differ in size
SizeOf(bytes) == bytes

\* a row of files.  origin is not a column: it records, for the claims, the
\* name of the file of the original directory the row's bytes derive from
Row(sid, fileName, filePath, format, thumb, origName, osize, csize, origin) ==
    [session_id |-> sid, file_name |-> fileName, file_path |-> filePath,
     format |-> format, thumbnail_path |-> thumb,
     original_file_name |-> origName, original_size |-> osize,
     converted_size |-> csize, origin |-> origin]
NoRow == Row(<<>>, <<>>, <<>>, "", <<>>, <<>>, NoBytes, NoBytes, <<>>)

IdleReq ==
    [kind |-> "idle", pc |-> "idle", sid |-> <<>>, format |-> "",
     file |-> <<>>, items |-> <<>>, rows |-> {}, todo |-> {}, cur |-> NoRow,
     out |-> <<>>, list |-> {}, body |-> NoBytes, disp |-> <<>>, resp |-> 0,
     alone |-> TRUE, had |-> FALSE, session |-> <<>>]

\* the component is not mounted
NoClient == queue = <<>> /\ isConverting = FALSE /\ calls = {} /\ made = 0

Init ==
    /\ sessions = {}
    /\ files = {}
    /\ dirs = {}
    /\ disk = <<>>
    /\ req = [r \in Reqs |-> IdleReq]
    /\ clock = 1
    /\ nOps = 0
    /\ NoClient

\* ------------------------------------------------------ the file system
Exists(p) == p \in DOMAIN disk

\* fs.writeFile: fails (ENOENT) when the parent directory is missing
CanWrite(p) == SubSeq(p, 1, Len(p) - 1) \in dirs

WriteFile(d, p, c) == [q \in (DOMAIN d) \cup {p} |-> IF q = p THEN c ELSE d[q]]

\* fs.unlink, errors swallowed by the caller
Unlink(d, p) == [q \in (DOMAIN d) \ {p} |-> d[q]]

IsPrefix(a, b) == Len(a) <= Len(b) /\ SubSeq(b, 1, Len(a)) = a

\* fs.rm(dir, { recursive: true, force: true })
RmTreeDisk(d, dir) == [q \in {x \in DOMAIN d : ~IsPrefix(dir, x)} |-> d[q]]
RmTreeDirs(ds, dir) == {x \in ds : ~IsPrefix(dir, x)}

\* fs.mkdir(dir, { recursive: true })
ensureDir(ds, dir) == ds \cup {SubSeq(dir, 1, n) : n \in 1..Len(dir)}

\* ----------------------------------------------------- the two tables
RowsOf(sid) == {f \in files : f.session_id = sid}

\* a plain INSERT on a table without the UNIQUE constraint
InsertOrReplace_m(fs, row) == fs \cup {row}

\* INSERT OR REPLACE INTO files: the row in conflict on
\* UNIQUE(session_id, file_path) is deleted, then the new row is inserted
InsertOrReplace(fs, row) ==
    {f \in fs : ~(f.session_id = row.session_id
                  /\ f.file_path = row.file_path)} \cup {row}

RECURSIVE InsertAll(_, _)
InsertAll(fs, rows) ==
    IF rows = <<>> THEN fs
    ELSE The({InsertAll(f, t) : f \in {InsertOrReplace(fs, Head(rows))},
                               t \in {Tail(rows)}})

\* a DELETE that matches no row
DeleteByName_m(fs, sid, name) == fs

\* DELETE FROM files WHERE session_id = ? AND file_name = ?
DeleteByName(fs, sid, name) ==
    {f \in fs : ~(f.session_id = sid /\ f.file_name = name)}

\* an in-flight request of the same session sees another step happen
Touch(q, sid) ==
    IF q.kind # "idle" /\ q.sid = sid THEN [q EXCEPT !.alone = FALSE] ELSE q

\* request r becomes rq; every other request of session rq.sid is touched
Upd(r, rq, sid) == [x \in Reqs |-> IF x = r THEN rq ELSE Touch(req[x], sid)]

\* new Date(): the clock never runs backwards
Now == clock..MaxClock

\* the work units of something that starts now
Cost(units) ==
    units + (IF \E x \in Reqs : req[x].kind # "idle" THEN 1 ELSE 0)

\* a new request takes the lowest idle slot
FreeSlot(r, units) ==
    /\ req[r].kind = "idle"
    /\ \A x \in Reqs : x < r => req[x].kind # "idle"
    /\ nOps + Cost(units) <= MaxOps
    /\ nOps' = nOps + Cost(units)

\* ------------------------------------------------- POST /api/convert
\* An item of a batch while it is processed.  pc: "new" (its function has
\* not been called), "save" (original not yet written), "saved", "read",
\* "out", "thumb", "done", "failed".  src: the origRecord of a pair.  ts:
\* the second at which the pair's timestamp was taken.  wroteOut,
\* wroteThumb: its writeFile of the output, of the thumbnail, has succeeded.
\* buf: inputBuffer.  osize, csize: originalSize and convertedSize.
Item(in) ==
    [kind |-> in.kind, name |-> in.name, to |-> in.to, mime |-> in.mime,
     pc |-> "new", src |-> NoRow, ts |-> 0,
     wroteOut |-> FALSE, wroteThumb |-> FALSE,
     buf |-> NoBytes, osize |-> NoBytes, csize |-> NoBytes]

ItemBase(it) ==
    IF it.kind = "upload" THEN safeBaseOf(it.name)
    ELSE reconvertBaseOf(it.to, it.ts)

\* the descriptor an item's function returns
Descriptor(it, format) ==
    The({[name |-> IF it.kind = "upload" THEN it.name ELSE it.to,
          normalizedName |-> outputFileNameOf(base, format),
          format |-> format,
          file |-> outputFileNameOf(base, format),
          thumbnail |-> thumbnailOf(base),
          originalSize |-> IF it.kind = "upload" THEN it.osize
                           ELSE it.src.original_size,
          convertedSize |-> it.csize] : base \in {ItemBase(it)}})

\* the row the commit writes for an item: original_file_name is
\* savedFiles[idx].origFileName for an upload and `name` for a pair
CommitRow(sid, it, format) ==
    LET d == Descriptor(it, format)
    IN Row(sid, d.name, d.normalizedName, d.format, d.thumbnail, d.name,
           d.originalSize, d.convertedSize,
           IF it.kind = "upload" THEN safeOrigFileName(it.name)
           ELSE it.src.origin)

Idx(rq, kind) == {i \in 1..Len(rq.items) : rq.items[i].kind = kind}

\* savedFiles resolved: convertedFiles.map starts every upload's conversion
StartConvert(rq) ==
    [rq EXCEPT !.pc = "convert",
               !.items = [i \in 1..Len(rq.items) |->
                   IF rq.items[i].kind = "upload"
                   THEN [rq.items[i] EXCEPT !.pc = "read"]
                   ELSE rq.items[i]]]

\* db.prepare('SELECT ... WHERE session_id = ? AND file_name = ?').get():
\* some matching row (the query has no ORDER BY), NoRow when none matches
Lookup(sid, name) ==
    LET m == {f \in files : f.session_id = sid /\ f.file_name = name}
    IN IF m = {} THEN {NoRow} ELSE m

\* one outcome of every pair's lookup
Picks(rq) ==
    {pk \in [1..Len(rq.items) -> files \cup {NoRow}] :
        \A i \in 1..Len(rq.items) :
            IF rq.items[i].kind = "reconvert"
            THEN pk[i] \in Lookup(rq.sid, rq.items[i].name)
            ELSE pk[i] = NoRow}

\* convertedFiles resolved: reconvertPairs.map runs every pair up to its
\* first await, that is through the lookup of its source record
StartReconvert(rq, pk) ==
    [rq EXCEPT !.pc = "reconvert",
               !.items = [i \in 1..Len(rq.items) |->
                   IF rq.items[i].kind = "reconvert"
                   THEN [rq.items[i] EXCEPT
                            !.src = pk[i],
                            !.pc = IF pk[i] = NoRow THEN "failed" ELSE "read"]
                   ELSE rq.items[i]]]

AllAt(rq, kind, pc) == \A i \in Idx(rq, kind) : rq.items[i].pc = pc

\* a handler without its catch: a rejected item is answered by nobody
Fail_m(rq) == rq

\* a rejected item rejects its Promise.all: the catch block answers 500
\* (lines 252-262)
Fail(rq) ==
    IF rq.resp = 0 /\ \E i \in 1..Len(rq.items) : rq.items[i].pc = "failed"
    THEN [rq EXCEPT !.resp = 500, !.pc = "done"]
    ELSE rq

Adv1(rq) ==
    IF rq.resp = 0 /\ rq.pc = "save" /\ AllAt(rq, "upload", "saved")
    THEN StartConvert(rq) ELSE rq

\* uploads whose thumbnail write is not awaited
Converted_m(rq) ==
    \A i \in Idx(rq, "upload") : rq.items[i].pc \in {"thumb", "done"}

\* convertedFiles has resolved: every upload's function has returned,
\* which it does after its thumbnail is written
Converted(rq) == AllAt(rq, "upload", "done")

Adv2(rq, pk) ==
    IF rq.resp = 0 /\ rq.pc = "convert" /\ Converted(rq)
    THEN StartReconvert(rq, pk) ELSE rq

Adv3(rq) ==
    IF rq.resp = 0 /\ rq.pc = "reconvert" /\ AllAt(rq, "reconvert", "done")
    THEN [rq EXCEPT !.pc = "commit"] ELSE rq

\* the handler's continuation after a step of one of its items
Advance(rq, pk) ==
    The({Adv3(f3) : f3 \in
        {Fail(a2) : a2 \in
            {Adv2(f2, pk) : f2 \in
                {Fail(a1) : a1 \in
                    {Adv1(f1) : f1 \in {Fail(rq)}}}}}})

\* the rows of the commit, uploads first, then pairs
RECURSIVE CommitRows(_, _, _)
CommitRows(rq, kind, i) ==
    IF i > Len(rq.items) THEN <<>>
    ELSE (IF rq.items[i].kind = kind
          THEN <<CommitRow(rq.sid, rq.items[i], rq.format)>> ELSE <<>>)
         \o CommitRows(rq, kind, i + 1)

Committed(rq) == CommitRows(rq, "upload", 1) \o CommitRows(rq, "reconvert", 1)

RECURSIVE Descriptors(_, _, _)
Descriptors(rq, kind, i) ==
    IF i > Len(rq.items) THEN <<>>
    ELSE (IF rq.items[i].kind = kind
          THEN <<Descriptor(rq.items[i], rq.format)>> ELSE <<>>)
         \o Descriptors(rq, kind, i + 1)

\* lines 238-251: INSERT OR IGNORE the session, INSERT OR REPLACE every
\* row, answer 200 with the descriptors
Commit(r, rq) ==
    /\ sessions' = sessions \cup {rq.sid}
    /\ files' = InsertAll(files, Committed(rq))
    /\ req' = Upd(r, [rq EXCEPT !.pc = "done", !.resp = 200,
                         !.out = Descriptors(rq, "upload", 1)
                                 \o Descriptors(rq, "reconvert", 1)],
                  rq.sid)

\* a handler that inserts the row of an item as soon as the item is done
Uncommitted_m(fs, rq) ==
    fs \cup {CommitRow(rq.sid, rq.items[i], rq.format) :
                i \in {j \in 1..Len(rq.items) : rq.items[j].pc = "done"}}

\* lines 50-237: before the commit the handler writes no row
Uncommitted(fs, rq) == fs

\* request r continues from rq0, the state after one of its steps
Settle(r, rq0) ==
    \E rq1 \in {rq0} : \E pk \in Picks(rq1) : \E rq2 \in {Advance(rq1, pk)} :
        IF rq2.pc = "commit"
        THEN Commit(r, rq2)
        ELSE /\ req' = Upd(r, rq2, rq2.sid)
             /\ files' = Uncommitted(files, rq2)
             /\ sessions' = sessions

\* two sessions with well-formed identifiers
PeerIds == {<<"s1">>, <<"s2">>}

\* the rows of the other well-formed session
PeerRows(sid) ==
    {g \in files : sid \in PeerIds /\ g.session_id \in PeerIds \ {sid}}

\* reconvertName[i] is any string of the form data: one that spells the way
\* from the session's original directory to the original file of row g
EscapeTo(g) ==
    <<".", ".", "/", ".", ".", "/">> \o g.session_id \o <<"/">> \o ORIGINAL
        \o <<"/">> \o g.origin

\* the client names a re-convert `${image.name}_${dateSuffix}`
\* (ImageQueue.tsx, the re-convert button); a hand-made request names it
\* as it likes
PairsFor(sid, now) ==
    {Pair(from, from \o <<"_", TsNames[now]>>) :
        from \in {f.file_name : f \in RowsOf(sid)} \cup {NameMissing}}
        \cup {Pair(f.file_name, EscapeTo(g)) :
                 f \in RowsOf(sid), g \in PeerRows(sid)}

\* a batch without pairs reads no clock; only batches the remaining work
\* budget admits are built
Batches(sid, now) ==
    LET in == Uploads \cup PairsFor(sid, now)
        ordered(b) == \A i, j \in 1..Len(b) :
                         (i < j /\ b[i].kind = "reconvert")
                             => b[j].kind = "reconvert"
        timed(b) == (\E i \in 1..Len(b) : b[i].kind = "reconvert")
                       \/ now = clock
        fits(n) == nOps + Cost(IF n > 1 THEN n ELSE 1) <= MaxOps
    IN {b \in UNION {[1..n -> in] : n \in {k \in 0..MaxItems : fits(k)}} :
           ordered(b) /\ timed(b)}

\* a format check that lets "gif" through
Rejected_m(format) == format \notin ALLOWED_FORMATS \cup {"gif"}

\* line 56: !ALLOWED_FORMATS.includes(format)
Rejected(format) == format \notin ALLOWED_FORMATS

\* lines 51-58: the form is parsed and the format validated
PostBegin(r, sid, format) ==
    /\ req[r].kind = "idle"
    /\ \A x \in Reqs : x < r => req[x].kind # "idle"
    /\ \E now \in Now : \E batch \in Batches(sid, now) :
          /\ FreeSlot(r, IF Len(batch) > 1 THEN Len(batch) ELSE 1)
          /\ clock' = now
          /\ LET rq == [IdleReq EXCEPT
                           !.kind = "post", !.sid = sid, !.format = format,
                           !.items = [i \in 1..Len(batch) |->
                                         Item(batch[i])]]
             IN req' = Upd(r, IF Rejected(format)
                              THEN [rq EXCEPT !.pc = "done", !.resp = 400]
                              ELSE [rq EXCEPT !.pc = "mkdirOriginal"], sid)
    /\ UNCHANGED <<client, sessions, files, dirs, disk>>

\* line 52: request.formData() throws on a body that is not a form
PostMalformed(r) ==
    /\ FreeSlot(r, 1)
    /\ req' = [req EXCEPT ![r] = [IdleReq EXCEPT !.kind = "post",
                                     !.pc = "done", !.resp = 500]]
    /\ UNCHANGED <<client, sessions, files, dirs, disk, clock>>

\* line 68: await ensureDir(originalDir)
PostMkdirOriginal(r) ==
    /\ req[r].kind = "post" /\ req[r].pc = "mkdirOriginal"
    /\ dirs' = ensureDir(dirs, DirOf(req[r].sid, ORIGINAL))
    /\ req' = Upd(r, [req[r] EXCEPT !.pc = "mkdirOutput"], req[r].sid)
    /\ UNCHANGED <<client, sessions, files, disk, clock, nOps>>

\* line 69: await ensureDir(outputDir); then files.map runs every upload
\* up to its first await: an upload of a type outside ALLOWED_MIME throws
PostMkdirOutput(r) ==
    /\ req[r].kind = "post" /\ req[r].pc = "mkdirOutput"
    /\ dirs' = ensureDir(dirs, DirOf(req[r].sid, OUTPUT))
    /\ LET rq == req[r]
           rq1 == [rq EXCEPT !.pc = "save",
                      !.items = [i \in 1..Len(rq.items) |->
                          IF rq.items[i].kind # "upload" THEN rq.items[i]
                          ELSE IF rq.items[i].mime \notin ALLOWED_MIME
                          THEN [rq.items[i] EXCEPT !.pc = "failed"]
                          ELSE [rq.items[i] EXCEPT !.pc = "save"]]]
       IN Settle(r, rq1)
    /\ UNCHANGED <<client, disk, clock, nOps>>

\* an item's function goes on after the handler has answered, until it
\* returns or throws
ItemAt(r, i, pc) ==
    /\ req[r].kind = "post"
    /\ i \in 1..Len(req[r].items)
    /\ req[r].items[i].pc = pc

SetItem(rq, i, it) == [rq EXCEPT !.items[i] = it]

\* lines 83-91: the original is written under its sanitized name and its
\* size is taken
ItemSave(r, i) ==
    /\ ItemAt(r, i, "save")
    /\ LET rq == req[r]
           it == rq.items[i]
           p == PathOf(rq.sid, ORIGINAL, safeOrigFileName(it.name))
       IN IF CanWrite(p)
          THEN /\ disk' = WriteFile(disk, p, Raw(it.name))
               /\ Settle(r, SetItem(rq, i,
                      [it EXCEPT !.pc = "saved",
                                 !.osize = SizeOf(Raw(it.name))]))
          ELSE /\ disk' = disk
               /\ Settle(r, SetItem(rq, i, [it EXCEPT !.pc = "failed"]))
    /\ UNCHANGED <<client, dirs, clock, nOps>>

\* the bytes an item converts: an upload reads its original (line 102), a
\* pair reads origRecord.file_path from the output directory and, failing
\* that, from the original directory (lines 151-172)
SourcePaths(rq, it) ==
    IF it.kind = "upload"
    THEN <<PathOf(rq.sid, ORIGINAL, safeOrigFileName(it.name))>>
    ELSE <<PathOf(rq.sid, OUTPUT, it.src.file_path),
           PathOf(rq.sid, ORIGINAL, it.src.file_path)>>

ReadSource(rq, it) ==
    LET ps == SourcePaths(rq, it)
        found == {k \in 1..Len(ps) : Exists(ps[k])}
    IN IF found = {} THEN NoBytes
       ELSE disk[ps[CHOOSE k \in found : \A j \in found : k <= j]]

\* the source is read and sharp converts it (lines 102-116, 156-208); a
\* pair takes its timestamp after the read (line 175)
ItemRead(r, i) ==
    /\ ItemAt(r, i, "read")
    /\ LET rq == req[r]
           it == rq.items[i]
           src == ReadSource(rq, it)
       IN IF it.kind = "reconvert" /\ src # NoBytes
          THEN \E now \in Now :
               /\ clock' = now
               /\ Settle(r, SetItem(rq, i,
                      [it EXCEPT !.ts = now, !.buf = src, !.pc = "out"]))
          ELSE /\ clock' = clock
               /\ Settle(r, SetItem(rq, i,
                      [it EXCEPT !.buf = src,
                                 !.pc = IF src # NoBytes THEN "out"
                                        ELSE "failed"]))
    /\ UNCHANGED <<client, dirs, disk, nOps>>

\* lines 117, 211: await fs.writeFile(outputPath, convertedBuffer)
ItemOut(r, i) ==
    /\ ItemAt(r, i, "out")
    /\ LET rq == req[r]
           it == rq.items[i]
           p == PathOf(rq.sid, OUTPUT, Descriptor(it, rq.format).file)
       IN IF CanWrite(p)
          THEN /\ disk' = WriteFile(disk, p, ConvertTo(it.buf, rq.format))
               /\ Settle(r, SetItem(rq, i, [it EXCEPT !.pc = "thumb",
                                                       !.wroteOut = TRUE]))
          ELSE /\ disk' = disk
               /\ Settle(r, SetItem(rq, i, [it EXCEPT !.pc = "failed"]))
    /\ UNCHANGED <<client, dirs, clock, nOps>>

\* lines 118-121, 214-219: fs.stat(outputPath) gives convertedSize, then
\* the thumbnail is written
ItemThumb(r, i) ==
    /\ ItemAt(r, i, "thumb")
    /\ LET rq == req[r]
           it == rq.items[i]
           d == Descriptor(it, rq.format)
           o == PathOf(rq.sid, OUTPUT, d.file)
           p == PathOf(rq.sid, OUTPUT, d.thumbnail)
       IN IF Exists(o) /\ CanWrite(p)
          THEN /\ disk' = WriteFile(disk, p, ThumbOf(it.buf))
               /\ Settle(r, SetItem(rq, i, [it EXCEPT !.pc = "done",
                                                       !.csize = SizeOf(disk[o]),
                                                       !.wroteThumb = TRUE]))
          ELSE /\ disk' = disk
               /\ Settle(r, SetItem(rq, i, [it EXCEPT !.pc = "failed"]))
    /\ UNCHANGED <<client, dirs, clock, nOps>>


\* -------------------------------------------------- GET /api/convert
\* the descriptor the list returns for a row (lines 281-288)
Listed(f) ==
    [name |-> f.file_name, format |-> f.format, file |-> f.file_path,
     thumbnail |-> f.thumbnail_path]

\* a check of the output file only
Accessible_m(sid, row) == Exists(PathOf(sid, OUTPUT, row.file_path))

\* lines 276-280: await fs.access(filePath); await fs.access(thumbPath)
Accessible(sid, row) ==
    /\ Exists(PathOf(sid, OUTPUT, row.file_path))
    /\ Exists(PathOf(sid, OUTPUT, row.thumbnail_path))

\* a list that skips stale rows without deleting them
Prune_m(fs, sid, row) == fs

\* line 290: DELETE FROM files WHERE session_id = ? AND file_name = ?
Prune(fs, sid, row) == DeleteByName(fs, sid, row.file_name)

\* lines 266-273: the rows of the session are selected
GetBegin(r, sid) ==
    /\ FreeSlot(r, 1)
    /\ LET rq == [IdleReq EXCEPT !.kind = "get", !.sid = sid,
                                 !.rows = RowsOf(sid), !.todo = RowsOf(sid)]
       IN req' = Upd(r, IF rq.todo = {}
                        THEN [rq EXCEPT !.pc = "done", !.resp = 200]
                        ELSE [rq EXCEPT !.pc = "check"], sid)
    /\ UNCHANGED <<client, sessions, files, dirs, disk, clock>>

\* lines 275-293: one iteration of the loop over the selected rows, in the
\* order the query returned them (it has no ORDER BY); the row is listed
\* when both files are accessible, and otherwise the rows of its file_name
\* are deleted; after the last row the list is returned
GetCheck(r) ==
    /\ req[r].kind = "get" /\ req[r].pc = "check"
    /\ \E row \in req[r].todo :
       LET rq == req[r]
           ok == Accessible(rq.sid, row)
           rq1 == [rq EXCEPT !.todo = rq.todo \ {row},
                             !.list = IF ok THEN rq.list \cup {Listed(row)}
                                      ELSE rq.list]
       IN /\ files' = IF ok THEN files ELSE Prune(files, rq.sid, row)
          /\ req' = Upd(r, IF rq1.todo = {}
                           THEN [rq1 EXCEPT !.pc = "done", !.resp = 200]
                           ELSE rq1, rq.sid)
    /\ UNCHANGED <<client, sessions, dirs, disk, clock, nOps>>

\* ----------------------------------------------- DELETE /api/convert
\* a delete that never cleans the session up
DelRemaining_m(rq, fs) == [rq EXCEPT !.pc = "done", !.resp = 200]

\* lines 370-378: the remaining rows are counted; with none left the two
\* directories are removed next, otherwise the request succeeds
DelRemaining(rq, fs) ==
    IF {f \in fs : f.session_id = rq.sid} = {}
    THEN [rq EXCEPT !.pc = "rmOut"]
    ELSE [rq EXCEPT !.pc = "done", !.resp = 200]

\* the display names a client asks to delete
DisplayNames(sid) == {f.file_name : f \in RowsOf(sid)} \cup {NameMissing}

\* lines 315-334: delete one file: the row is looked up by display name
\* (rows is not read by the handler: the rows of the session at this point)
DelBegin(r, sid) ==
    /\ FreeSlot(r, 1)
    /\ \E file \in DisplayNames(sid) : \E cur \in Lookup(sid, file) :
          LET rq == [IdleReq EXCEPT
                        !.kind = "del", !.sid = sid, !.file = file,
                        !.cur = cur, !.rows = RowsOf(sid),
                        !.had = Exists(PathOf(sid, ORIGINAL, cur.origin))]
          IN req' = Upd(r, IF cur = NoRow THEN DelRemaining(rq, files)
                           ELSE [rq EXCEPT !.pc = "unlinkFile"], sid)
    /\ UNCHANGED <<client, sessions, files, dirs, disk, clock>>

\* lines 336-341: await fs.unlink(filePath)
DelUnlinkFile(r) ==
    /\ req[r].kind = "del" /\ req[r].pc = "unlinkFile"
    /\ disk' = Unlink(disk, PathOf(req[r].sid, OUTPUT, req[r].cur.file_path))
    /\ req' = Upd(r, [req[r] EXCEPT !.pc = "unlinkThumb"], req[r].sid)
    /\ UNCHANGED <<client, sessions, files, dirs, clock, nOps>>

\* SELECT COUNT(*) FROM files WHERE session_id = ? AND original_file_name = ?
originalFileCount(sid, origName) ==
    Cardinality({f \in files : f.session_id = sid
                               /\ f.original_file_name = origName})

\* lines 363-378: the rows of the display name are deleted
DelRecord(r, rq) ==
    /\ files' = DeleteByName(files, rq.sid, rq.file)
    /\ req' = Upd(r, DelRemaining(rq, DeleteByName(files, rq.sid, rq.file)),
                  rq.sid)

\* lines 343-361: await fs.unlink(thumbPath); then the rows sharing the
\* original are counted: with at most one the original is unlinked next
DelUnlinkThumb(r) ==
    /\ req[r].kind = "del" /\ req[r].pc = "unlinkThumb"
    /\ LET rq == req[r]
       IN /\ disk' = Unlink(disk, PathOf(rq.sid, OUTPUT, rq.cur.thumbnail_path))
          /\ IF originalFileCount(rq.sid, rq.cur.original_file_name) <= 1
             THEN /\ req' = Upd(r, [rq EXCEPT !.pc = "unlinkOrig"], rq.sid)
                  /\ files' = files
             ELSE DelRecord(r, rq)
    /\ UNCHANGED <<client, sessions, dirs, clock, nOps>>

\* lines 353-358: await fs.unlink(origPath)
DelUnlinkOrig(r) ==
    /\ req[r].kind = "del" /\ req[r].pc = "unlinkOrig"
    /\ LET rq == req[r]
       IN /\ disk' = Unlink(disk, PathOf(rq.sid, ORIGINAL,
                                         rq.cur.original_file_name))
          /\ DelRecord(r, rq)
    /\ UNCHANGED <<client, sessions, dirs, clock, nOps>>

\* lines 374, 392: await fs.rm(sessionDir, { recursive, force })
DelRmOut(r) ==
    /\ req[r].kind \in {"del", "delAll"} /\ req[r].pc = "rmOut"
    /\ disk' = RmTreeDisk(disk, DirOf(req[r].sid, OUTPUT))
    /\ dirs' = RmTreeDirs(dirs, DirOf(req[r].sid, OUTPUT))
    /\ req' = Upd(r, [req[r] EXCEPT !.pc = "rmOrig"], req[r].sid)
    /\ UNCHANGED <<client, sessions, files, clock, nOps>>

\* a DELETE FROM sessions that fails when the session has no row
CanDeleteSession_m(fs, sid) ==
    {f \in fs : f.session_id = sid} = {} /\ sid \in sessions

\* DELETE FROM sessions WHERE session_id = ?: refused while a row of files
\* references the session (FOREIGN KEY, line 38)
CanDeleteSession(fs, sid) == {f \in fs : f.session_id = sid} = {}

\* a delete all that leaves the rows of files in place
DeleteAllRows_m(fs, sid) == fs

\* line 395: DELETE FROM files WHERE session_id = ?
DeleteAllRows(fs, sid) == {f \in fs : f.session_id # sid}

\* lines 375-378: await fs.rm(originalDir), then the session row is
\* deleted; lines 393-397: delete all deletes the rows of files first
DelRmOrig(r) ==
    /\ req[r].kind \in {"del", "delAll"} /\ req[r].pc = "rmOrig"
    /\ LET rq == req[r]
           fs == IF rq.kind = "delAll"
                 THEN DeleteAllRows(files, rq.sid) ELSE files
       IN /\ disk' = RmTreeDisk(disk, DirOf(rq.sid, ORIGINAL))
          /\ dirs' = RmTreeDirs(dirs, DirOf(rq.sid, ORIGINAL))
          /\ files' = fs
          /\ IF CanDeleteSession(fs, rq.sid)
             THEN /\ sessions' = sessions \ {rq.sid}
                  /\ req' = Upd(r, [rq EXCEPT !.pc = "done", !.resp = 200],
                                rq.sid)
             ELSE /\ sessions' = sessions
                  /\ req' = Upd(r, [rq EXCEPT !.pc = "done", !.resp = 500],
                                rq.sid)
    /\ UNCHANGED <<client, clock, nOps>>

\* lines 380-382: delete all: the rows of the session are selected
\* (had is not read by the handler: every selected row has its two files)
DelAllBegin(r, sid) ==
    /\ FreeSlot(r, 1)
    /\ LET rq == [IdleReq EXCEPT !.kind = "delAll", !.sid = sid,
                                 !.rows = RowsOf(sid), !.todo = RowsOf(sid),
                                 !.had = \A f \in RowsOf(sid) :
                                            Accessible(sid, f)]
       IN req' = Upd(r, IF rq.todo = {} THEN [rq EXCEPT !.pc = "rmOut"]
                        ELSE [rq EXCEPT !.pc = "sweep"], sid)
    /\ UNCHANGED <<client, sessions, files, dirs, disk, clock>>

\* lines 384-389: one iteration: the row's file and thumbnail are unlinked
DelAllSweep(r) ==
    /\ req[r].kind = "delAll" /\ req[r].pc = "sweep"
    /\ \E row \in req[r].todo :
       LET rq == req[r]
           rq1 == [rq EXCEPT !.todo = rq.todo \ {row}]
       IN /\ disk' = Unlink(Unlink(disk,
                         PathOf(rq.sid, OUTPUT, row.file_path)),
                         PathOf(rq.sid, OUTPUT, row.thumbnail_path))
          /\ req' = Upd(r, IF rq1.todo = {} THEN [rq1 EXCEPT !.pc = "rmOut"]
                           ELSE rq1, rq.sid)
    /\ UNCHANGED <<client, sessions, files, dirs, clock, nOps>>

\* ------------------------------------------------- GET /api/download
\* tokens matched by [a-zA-Z0-9\-_]
SessionToks == (SafeToks \cup {"s1"}) \ {"."}

\* s.replace(/[^...]/g, ''): the tokens outside toks are dropped
Keep(s, toks) == SelectSeq(s, LAMBDA t : t \in toks)

\* path.basename(p): trailing separators are dropped, the result is what
\* follows the last separator
RECURSIVE basename(_)
basename(p) ==
    IF p # <<>> /\ p[Len(p)] = "/"
    THEN basename(SubSeq(p, 1, Len(p) - 1))
    ELSE LET ss == {i \in 1..Len(p) : p[i] = "/"}
         IN IF ss = {} THEN p
            ELSE SubSeq(p, (CHOOSE i \in ss : \A j \in ss : j <= i) + 1,
                        Len(p))

safeSessionOf(session) == Keep(session, SessionToks)
safeFileOf(file) == Keep(basename(file), SafeToks)

\* a lookup by session only
LookupPath_m(sid, path) == IF RowsOf(sid) = {} THEN {NoRow} ELSE RowsOf(sid)

\* SELECT file_path FROM files WHERE session_id = ? AND file_path = ?
LookupPath(sid, path) ==
    LET m == {f \in files : f.session_id = sid /\ f.file_path = path}
    IN IF m = {} THEN {NoRow} ELSE m

\* the file parameters a client sends: nothing, a storage name of the
\* session, a storage name behind "../", and names of no record
FetchNames(sid) ==
    {<<>>, <<".", ".">>, <<".", ".", "/">> \o NameMissing}
        \cup {f.file_path : f \in RowsOf(sid)}
        \cup {<<".", ".", "/">> \o f.file_path : f \in RowsOf(sid)}

\* lines 11-34: the parameters are sanitized, the record is looked up by
\* (safeSession, safeFile) and the joined path is checked
\* (session is not read after line 21: the session parameter as sent)
FetchBegin(r, session) ==
    /\ FreeSlot(r, 1)
    /\ \E file \in FetchNames(session) :
       LET sid == safeSessionOf(session)
           rq == [IdleReq EXCEPT !.kind = "fetch", !.sid = sid,
                                 !.file = file, !.session = session]
       IN IF session = <<>> \/ file = <<>>
          THEN req' = [req EXCEPT ![r] = [rq EXCEPT !.pc = "done",
                                                    !.resp = 400]]
          ELSE \E cur \in LookupPath(sid, safeFileOf(file)) :
               req' = [req EXCEPT ![r] =
                   IF cur = NoRow
                   THEN [rq EXCEPT !.pc = "done", !.resp = 404]
                   ELSE IF ~IsPrefix(Join(sid, OUTPUT, <<>>),
                                     Join(sid, OUTPUT, cur.file_path))
                   THEN [rq EXCEPT !.cur = cur, !.pc = "done", !.resp = 400]
                   ELSE [rq EXCEPT !.cur = cur, !.pc = "read"]]
    /\ UNCHANGED <<client, sessions, files, dirs, disk, clock>>

\* lines 36-48: await fs.readFile(filePath): the bytes with the header
\* Content-Disposition: attachment; filename="<safeFile>", or 404
FetchRead(r) ==
    /\ req[r].kind = "fetch" /\ req[r].pc = "read"
    /\ LET rq == req[r]
           p == Join(rq.sid, OUTPUT, rq.cur.file_path)
       IN req' = [req EXCEPT ![r] =
              IF Exists(p)
              THEN [rq EXCEPT !.pc = "done", !.resp = 200, !.body = disk[p],
                              !.disp = safeFileOf(rq.file)]
              ELSE [rq EXCEPT !.pc = "done", !.resp = 404]]
    /\ UNCHANGED <<client, sessions, files, dirs, disk, clock, nOps>>

\* ------------------------------------------------ GET /api/thumbnail
\* the file parameters a client sends: nothing, "..", a thumbnail name or a
\* storage name of the session, and a name of no record
ThumbNames(sid) ==
    {<<>>, <<".", ".">>, thumbnailOf(safeBaseOf(NameMissing))}
        \cup {f.thumbnail_path : f \in RowsOf(sid)}
        \cup {f.file_path : f \in RowsOf(sid)}

\* lines 7-21: the parameters are sanitized and the joined path is checked;
\* no table is read
ThumbBegin(r, session) ==
    /\ FreeSlot(r, 1)
    /\ \E file \in ThumbNames(session) :
       LET sid == safeSessionOf(session)
           rq == [IdleReq EXCEPT !.kind = "thumb", !.sid = sid,
                                 !.file = file]
       IN req' = [req EXCEPT ![r] =
              IF session = <<>> \/ file = <<>>
              THEN [rq EXCEPT !.pc = "done", !.resp = 400]
              ELSE IF ~IsPrefix(Join(sid, OUTPUT, <<>>),
                                Join(sid, OUTPUT, safeFileOf(file)))
              THEN [rq EXCEPT !.pc = "done", !.resp = 400]
              ELSE [rq EXCEPT !.pc = "read"]]
    /\ UNCHANGED <<client, sessions, files, dirs, disk, clock>>

\* lines 23-34: await fs.readFile(thumbPath): the bytes with the header
\* Content-Disposition: inline; filename="<safeFile>", or 404
ThumbRead(r) ==
    /\ req[r].kind = "thumb" /\ req[r].pc = "read"
    /\ LET rq == req[r]
           p == Join(rq.sid, OUTPUT, safeFileOf(rq.file))
       IN req' = [req EXCEPT ![r] =
              IF Exists(p)
              THEN [rq EXCEPT !.pc = "done", !.resp = 200, !.body = disk[p],
                              !.disp = safeFileOf(rq.file)]
              ELSE [rq EXCEPT !.pc = "done", !.resp = 404]]
    /\ UNCHANGED <<client, sessions, files, dirs, disk, clock, nOps>>

\* ---------------------------------------------------- the environment
\* something outside the program removes a file
ExternalRemove ==
    /\ nOps + Cost(1) <= MaxOps
    /\ nOps' = nOps + Cost(1)
    /\ \E p \in DOMAIN disk :
          /\ disk' = Unlink(disk, p)
          /\ req' = [x \in Reqs |-> Touch(req[x], p[1])]
    /\ UNCHANGED <<client, sessions, files, dirs, clock>>

\* no function of the request is still running
Quiet(rq) ==
    /\ rq.resp # 0
    /\ \A i \in 1..Len(rq.items) :
          rq.items[i].pc \notin {"save", "read", "out", "thumb"}

\* the response has been sent and the slot is free again
Retire(r) ==
    /\ req[r].kind # "idle"
    /\ Quiet(req[r])
    /\ req' = [req EXCEPT ![r] = IdleReq]
    /\ UNCHANGED <<client, sessions, files, dirs, disk, clock, nOps>>


\* the requests of the convert route and their steps over the sessions S
ConvertSteps(S) ==
    \/ \E r \in Reqs, sid \in S, format \in Formats : PostBegin(r, sid, format)
    \/ \E r \in Reqs : PostMalformed(r)
    \/ \E r \in Reqs : PostMkdirOriginal(r)
    \/ \E r \in Reqs : PostMkdirOutput(r)
    \/ \E r \in Reqs, i \in 1..MaxItems : ItemSave(r, i)
    \/ \E r \in Reqs, i \in 1..MaxItems : ItemRead(r, i)
    \/ \E r \in Reqs, i \in 1..MaxItems : ItemOut(r, i)
    \/ \E r \in Reqs, i \in 1..MaxItems : ItemThumb(r, i)
    \/ \E r \in Reqs, sid \in S : GetBegin(r, sid)
    \/ \E r \in Reqs : GetCheck(r)
    \/ \E r \in Reqs, sid \in S : DelBegin(r, sid)
    \/ \E r \in Reqs : DelUnlinkFile(r)
    \/ \E r \in Reqs : DelUnlinkThumb(r)
    \/ \E r \in Reqs : DelUnlinkOrig(r)
    \/ \E r \in Reqs : DelRmOut(r)
    \/ \E r \in Reqs : DelRmOrig(r)
    \/ \E r \in Reqs, sid \in S : DelAllBegin(r, sid)
    \/ \E r \in Reqs : DelAllSweep(r)
    \/ \E r \in Reqs : Retire(r)

\* the requests of the download route
FetchSteps(S) ==
    \/ \E r \in Reqs, sid \in S : FetchBegin(r, sid)
    \/ \E r \in Reqs : FetchRead(r)

\* the requests of the thumbnail route
ThumbSteps(S) ==
    \/ \E r \in Reqs, sid \in S : ThumbBegin(r, sid)
    \/ \E r \in Reqs : ThumbRead(r)

Steps(S) == ConvertSteps(S) \/ FetchSteps(S) \/ ThumbSteps(S)

\* the program in an environment that removes files
Next == Steps(SessionIds) \/ ExternalRemove

Spec == Init /\ [][Next]_vars

\* the program alone
ProgNext == Steps(SessionIds)

ProgSpec == Init /\ [][ProgNext]_vars

\* the program with a second client, which sends a session identifier with
\* path separators
TravId == <<".", ".", "/", "s1">>

TravNext == Steps(SessionIds \cup {TravId})

TravSpec == Init /\ [][TravNext]_vars

\* two well-formed sessions on the convert route.  The run starts after
\* the client of session s2 has uploaded a.png for webp and got its answer:
\* the two directories, the original, the output and the thumbnail exist
\* and the row is committed.
PeerId == <<"s2">>
PeerItem ==
    [Item(Upload(NameA, "image/png")) EXCEPT
        !.pc = "done", !.wroteOut = TRUE, !.wroteThumb = TRUE,
        !.buf = Raw(NameA), !.osize = SizeOf(Raw(NameA)),
        !.csize = SizeOf(ConvertTo(Raw(NameA), "webp"))]

PairInit ==
    /\ sessions = {PeerId}
    /\ files = {CommitRow(PeerId, PeerItem, "webp")}
    /\ dirs = ensureDir(ensureDir({}, DirOf(PeerId, ORIGINAL)),
                        DirOf(PeerId, OUTPUT))
    /\ disk = LET d == Descriptor(PeerItem, "webp")
                  o == PathOf(PeerId, ORIGINAL, safeOrigFileName(NameA))
              IN WriteFile(WriteFile(WriteFile(<<>>, o, Raw(NameA)),
                               PathOf(PeerId, OUTPUT, d.file),
                               ConvertTo(Raw(NameA), "webp")),
                           PathOf(PeerId, OUTPUT, d.thumbnail),
                           ThumbOf(Raw(NameA)))
    /\ req = [r \in Reqs |-> IdleReq]
    /\ clock = 1
    /\ nOps = 0
    /\ NoClient

PairNext == ConvertSteps(PeerIds)

PairSpec == PairInit /\ [][PairNext]_vars

\* the convert route in an environment that removes files.  The run starts
\* after the client of session s1 has uploaded a.png for webp and got its
\* answer, as the run of PairSpec does for session s2.
HeldId == <<"s1">>

HeldInit ==
    /\ sessions = {HeldId}
    /\ files = {CommitRow(HeldId, PeerItem, "webp")}
    /\ dirs = ensureDir(ensureDir({}, DirOf(HeldId, ORIGINAL)),
                        DirOf(HeldId, OUTPUT))
    /\ disk = LET d == Descriptor(PeerItem, "webp")
                  o == PathOf(HeldId, ORIGINAL, safeOrigFileName(NameA))
              IN WriteFile(WriteFile(WriteFile(<<>>, o, Raw(NameA)),
                               PathOf(HeldId, OUTPUT, d.file),
                               ConvertTo(Raw(NameA), "webp")),
                           PathOf(HeldId, OUTPUT, d.thumbnail),
                           ThumbOf(Raw(NameA)))
    /\ req = [r \in Reqs |-> IdleReq]
    /\ clock = 1
    /\ nOps = 0
    /\ NoClient

HeldNext == ConvertSteps(SessionIds) \/ ExternalRemove

HeldSpec == HeldInit /\ [][HeldNext]_vars

\* the continuations of request r: what the event loop runs once the
\* awaited file operation or sharp call has completed or failed
Run(r) ==
    \/ PostMkdirOriginal(r)
    \/ PostMkdirOutput(r)
    \/ \E i \in 1..MaxItems : ItemSave(r, i)
    \/ \E i \in 1..MaxItems : ItemRead(r, i)
    \/ \E i \in 1..MaxItems : ItemOut(r, i)
    \/ \E i \in 1..MaxItems : ItemThumb(r, i)
    \/ GetCheck(r)
    \/ DelUnlinkFile(r)
    \/ DelUnlinkThumb(r)
    \/ DelUnlinkOrig(r)
    \/ DelRmOut(r)
    \/ DelRmOrig(r)
    \/ DelAllSweep(r)
    \/ FetchRead(r)
    \/ ThumbRead(r)

\* every awaited call completes or fails, so a continuation that is ready
\* is run; nothing is assumed about when clients send requests
LiveSpec == Spec /\ \A r \in Reqs : WF_vars(Run(r))

\* --------------------------------------- normalizeFileName on its own
\* raw names: every string of at most MaxName tokens, safe and unsafe
RawToks == {"a", "_", ".", " ", "/"}
RawNames == UNION {[1..n -> RawToks] : n \in 0..MaxName}

\* each slot holds one raw name; out collects the results of the calls
NormInit ==
    /\ sessions = {} /\ files = {} /\ dirs = {} /\ disk = <<>>
    /\ clock = 1 /\ nOps = 0
    /\ req \in [Reqs -> {[IdleReq EXCEPT !.kind = "norm", !.pc = "call",
                                         !.file = x] : x \in RawNames}]
    /\ NoClient

\* the first call takes the raw name, the second the result of the first
NormCall(r) ==
    /\ req[r].kind = "norm" /\ Len(req[r].out) < 2
    /\ LET rq == req[r]
           arg == IF rq.out = <<>> THEN rq.file ELSE rq.out[Len(rq.out)]
       IN req' = [req EXCEPT ![r] =
              [rq EXCEPT !.out = Append(rq.out, normalizeFileName(arg)),
                         !.pc = IF rq.out = <<>> THEN "call" ELSE "done"]]
    /\ UNCHANGED <<client, sessions, files, dirs, disk, clock, nOps>>

NormNext == \E r \in Reqs : NormCall(r)

NormSpec == NormInit /\ [][NormNext]_vars

\* ------------------------------------------- the queue of the browser
\* ImageQueue.tsx.  The format prop stays at the initial value of the
\* select (useState('webp') of the uploader).
Chosen == "webp"

\* the files a user picks
Picked == {NameA, NameC}
NewFiles == {<<f>> : f \in Picked} \cup {<<f, f>> : f \in Picked}

\* the records a list response carries
Persisted == {<<>>, <<[name |-> NameA, format |-> "webp"]>>}

\* a QueueImage (lines 4-14): file is fileObj.name, from is reconvertFrom,
\* both <<>> when undefined.  key is not a field of the source: it names
\* the entry, and the entry made from the descriptor of a sent entry keeps
\* the key of that entry.
Entry(key, name, format, status, file, from) ==
    [key |-> key, name |-> name, format |-> format, status |-> status,
     file |-> file, from |-> from]

\* the decimal digits of the counter of line 60
CounterToks == <<"1", "2", "3", "4", "5">>

\* file.name.split('.').pop() || ''
extOf(name) == SubSeq(name, LastDot(name) + 1, Len(name))

\* lines 56-62: the first of baseName, `${baseName} (1)`, ... that no entry
\* of the same format has
RECURSIVE uniqueNameOf(_, _, _, _)
uniqueNameOf(q, baseName, uniqueName, counter) ==
    IF \E i \in 1..Len(q) : q[i].name = uniqueName /\ q[i].format = Chosen
    THEN uniqueNameOf(q, baseName,
                      baseName \o <<" ", "(", CounterToks[counter], ")">>,
                      counter + 1)
    ELSE uniqueName

\* lines 52-74: every new file is pushed as a waiting entry
RECURSIVE Pushed(_, _, _)
Pushed(q, newFiles, key) ==
    IF newFiles = <<>> THEN q
    ELSE LET file == Head(newFiles)
             baseName == StripExt(file)
             uniqueName == uniqueNameOf(q, baseName, baseName, 1)
         IN Pushed(Append(q, Entry(key + 1, uniqueName, Chosen, "waiting",
                                   uniqueName \o <<".">> \o extOf(file),
                                   <<>>)),
                   Tail(newFiles), key + 1)

\* a fetch call that has not resolved: kind is "list", "post", "delete" or
\* "clear"; sent: the waiting entries of a post; name: the fileName of a
\* delete
Call(kind, sent, name) == [kind |-> kind, sent |-> sent, name |-> name]

\* lines 30-31: the effect run on mount has sent the list request
QueueInit ==
    /\ sessions = {} /\ files = {} /\ dirs = {} /\ disk = <<>>
    /\ req = [r \in Reqs |-> IdleReq]
    /\ clock = 1 /\ nOps = 0
    /\ queue = <<>> /\ isConverting = FALSE /\ made = 0
    /\ calls = {Call("list", <<>>, <<>>)}

Server == <<sessions, files, dirs, disk, req, nOps>>

\* lines 32-45: the list response arrives: the queue becomes its files
QListed ==
    \E c \in calls :
       /\ c.kind = "list"
       /\ \E data \in Persisted :
             /\ made + Len(data) <= MaxMade
             /\ queue' = [i \in 1..Len(data) |->
                             Entry(made + i, data[i].name, data[i].format,
                                   "converted", <<>>, <<>>)]
             /\ made' = made + Len(data)
       /\ calls' = calls \ {c}
       /\ UNCHANGED <<Server, clock, isConverting>>

\* a fetch of the list, of a delete or of the clear that rejects, and a
\* list response without files: the promise chain ends without setQueue
QLost ==
    \E c \in calls :
       /\ c.kind \in {"list", "delete", "clear"}
       /\ calls' = calls \ {c}
       /\ UNCHANGED <<Server, clock, queue, isConverting, made>>

\* lines 49-79: the effect on newFiles
QAdd(newFiles) ==
    /\ made + Len(newFiles) <= MaxMade
    /\ queue' = Pushed(queue, newFiles, made)
    /\ made' = made + Len(newFiles)
    /\ UNCHANGED <<Server, clock, isConverting, calls>>

\* lines 257-282: the re-convert button of a converted entry
QReconvert(i) ==
    /\ i \in 1..Len(queue) /\ queue[i].status = "converted"
    /\ made < MaxMade
    /\ \E now \in Now :
          /\ clock' = now
          /\ queue' = Append(queue,
                 Entry(made + 1, queue[i].name \o <<"_", TsNames[now]>>,
                       queue[i].format, "waiting", <<>>, queue[i].name))
    /\ made' = made + 1
    /\ UNCHANGED <<Server, isConverting, calls>>

\* line 98: every waiting entry becomes converting
Marked(q) ==
    [i \in 1..Len(q) |-> IF q[i].status = "waiting"
                         THEN [q[i] EXCEPT !.status = "converting"]
                         ELSE q[i]]

\* lines 82-103 and 385: the convert button, enabled while isConverting is
\* false and an entry is waiting: convertImages up to its await
QConvert ==
    /\ ~isConverting
    /\ \E i \in 1..Len(queue) : queue[i].status = "waiting"
    /\ isConverting' = TRUE
    /\ queue' = Marked(queue)
    /\ calls' = calls \cup
          {Call("post", SelectSeq(queue, LAMBDA e : e.status = "waiting"),
                <<>>)}
    /\ UNCHANGED <<Server, clock, made>>

\* data.files of a 200 (route.ts lines 122-130, 222-230, 251): one
\* descriptor per upload, then one per pair, named by File.name and by
\* reconvertName
Answer(sent) ==
    LET ups == SelectSeq(sent, LAMBDA e : e.file # <<>>)
        pairs == SelectSeq(sent, LAMBDA e : e.file = <<>>)
    IN [i \in 1..Len(ups) |->
           [key |-> ups[i].key, name |-> ups[i].file, format |-> Chosen]]
       \o [i \in 1..Len(pairs) |->
              [key |-> pairs[i].key, name |-> pairs[i].name,
               format |-> Chosen]]

\* line 109: prev.filter(img => img.status === 'converted')
Kept(q) == SelectSeq(q, LAMBDA e : e.status = "converted")

\* lines 104-122 and 127: the response is ok: the converted entries are
\* kept and one converted entry per descriptor is added
QConverted ==
    \E c \in calls :
       /\ c.kind = "post"
       /\ LET data == Answer(c.sent)
          IN queue' = Kept(queue) \o
                 [i \in 1..Len(data) |->
                     Entry(data[i].key, data[i].name, data[i].format,
                           "converted", <<>>, <<>>)]
       /\ isConverting' = FALSE
       /\ calls' = calls \ {c}
       /\ UNCHANGED <<Server, clock, made>>

\* lines 104 and 123-127: the fetch rejects or the response is not ok:
\* every converting entry becomes error
QFailed ==
    \E c \in calls :
       /\ c.kind = "post"
       /\ queue' = [i \in 1..Len(queue) |->
                       IF queue[i].status = "converting"
                       THEN [queue[i] EXCEPT !.status = "error"]
                       ELSE queue[i]]
       /\ isConverting' = FALSE
       /\ calls' = calls \ {c}
       /\ UNCHANGED <<Server, clock, made>>

\* lines 154-155 and 302: the delete button of a converted entry
QDelete(i) ==
    /\ i \in 1..Len(queue) /\ queue[i].status = "converted"
    /\ calls' = calls \cup {Call("delete", <<>>, queue[i].name)}
    /\ UNCHANGED <<Server, clock, queue, isConverting, made>>

\* line 156: the delete has answered
QDeleted ==
    \E c \in calls :
       /\ c.kind = "delete"
       /\ queue' = SelectSeq(queue, LAMBDA e : e.name # c.name)
       /\ calls' = calls \ {c}
       /\ UNCHANGED <<Server, clock, isConverting, made>>

\* lines 401-403: the clear button
QClear ==
    /\ calls' = calls \cup {Call("clear", <<>>, <<>>)}
    /\ UNCHANGED <<Server, clock, queue, isConverting, made>>

\* lines 404-405: the delete all has answered
QCleared ==
    \E c \in calls :
       /\ c.kind = "clear"
       /\ queue' = <<>>
       /\ calls' = calls \ {c}
       /\ UNCHANGED <<Server, clock, isConverting, made>>

QueueNext ==
    \/ QListed
    \/ QLost
    \/ \E newFiles \in NewFiles : QAdd(newFiles)
    \/ \E i \in 1..MaxMade : QReconvert(i)
    \/ QConvert
    \/ QConverted
    \/ QFailed
    \/ \E i \in 1..MaxMade : QDelete(i)
    \/ QDeleted
    \/ QClear
    \/ QCleared

QueueSpec == QueueInit /\ [][QueueNext]_vars

\* ------------------------------------------------------------ claims
\* request r took this step
Acted(r) == [req'[r] EXCEPT !.alone = TRUE] # [req[r] EXCEPT !.alone = TRUE]

\* the handler of r has returned and answered st
Answered(r, kind, st) == req[r].kind = kind /\ req[r].resp = st

Range(seq) == {seq[i] : i \in 1..Len(seq)}

\* C1: every record a list returns has its output file and its thumbnail
\* file on disk when the list returns, no other step on the session having
\* interleaved with the list
C1_ListedFilesExist ==
    \A r \in Reqs :
        (Answered(r, "get", 200) /\ req[r].alone) =>
            \A d \in req[r].list :
                /\ Exists(PathOf(req[r].sid, OUTPUT, d.file))
                /\ Exists(PathOf(req[r].sid, OUTPUT, d.thumbnail))

C1_Witness ==
    \E r \in Reqs :
        Answered(r, "get", 200) /\ req[r].alone /\ req[r].list # {}

\* C2: a row enters table files only in the step in which a POST answers
\* 200, and every item of that POST that the row belongs to has written
\* both its output file and its thumbnail file
C2_CommitAfterWrites ==
    [][\A f \in files' \ files :
          \E r \in Reqs :
              /\ req'[r].kind = "post" /\ req[r].resp = 0
              /\ req'[r].resp = 200
              /\ f \in Range(Committed(req'[r]))
              /\ \A i \in 1..Len(req'[r].items) :
                    CommitRow(req'[r].sid, req'[r].items[i], req'[r].format) = f
                        => /\ req'[r].items[i].wroteOut
                           /\ req'[r].items[i].wroteThumb]_vars

C2_Witness ==
    \E r \in Reqs :
        /\ Answered(r, "post", 200)
        /\ \E i \in 1..Len(req[r].items) :
              /\ CommitRow(req[r].sid, req[r].items[i], req[r].format) \in files
              /\ req[r].items[i].wroteOut /\ req[r].items[i].wroteThumb

\* C3: when a delete-one that resolved a record has answered, the original
\* file the record derives from (on disk when the delete began) is still on
\* disk if and only if a surviving record of the session derives from it
C3_OriginalRemovedIffLast ==
    \A r \in Reqs :
        (/\ Answered(r, "del", 200) /\ req[r].alone
         /\ req[r].cur # NoRow /\ req[r].had) =>
            (Exists(PathOf(req[r].sid, ORIGINAL, req[r].cur.origin))
                <=> \E f \in RowsOf(req[r].sid) : f.origin = req[r].cur.origin)

\* C4: the row a re-convert commits has the original_file_name of the
\* source record it was resolved from
C4_ReconvertKeepsOriginal ==
    \A r \in Reqs :
        Answered(r, "post", 200) =>
            \A i \in Idx(req[r], "reconvert") :
                CommitRow(req[r].sid, req[r].items[i],
                          req[r].format).original_file_name
                    = req[r].items[i].src.original_file_name

\* C5: the original_file_name of every row names a file of the session's
\* original directory, unless another row of the session shares it
C5_OriginalExistsOrShared ==
    \A f \in files :
        \/ Exists(PathOf(f.session_id, ORIGINAL, f.original_file_name))
        \/ \E g \in files :
              /\ g # f /\ g.session_id = f.session_id
              /\ g.original_file_name = f.original_file_name

\* C6: a list always answers 200; when it returns, every row it selected
\* whose output file or thumbnail file is missing is gone from table files
\* and is not in the returned list
C6_StaleRowsPruned ==
    \A r \in Reqs :
        (req[r].kind = "get" /\ req[r].resp # 0) =>
            /\ req[r].resp = 200
            /\ req[r].alone =>
                  \A f \in req[r].rows :
                      ~Accessible(req[r].sid, f) =>
                          f \notin files /\ Listed(f) \notin req[r].list

C6_Witness ==
    \E r \in Reqs :
        /\ Answered(r, "get", 200) /\ req[r].alone
        /\ \E f \in req[r].rows : ~Accessible(req[r].sid, f)

\* C7: a submit-batch with a format outside webp, jpeg, png answers 400 in
\* its first step, and no step of it changes a table, a directory or a file
C7_BadFormatRejected ==
    [][\A r \in Reqs :
          (/\ req'[r].kind = "post" /\ req'[r].sid # <<>>
           /\ req'[r].format \notin ALLOWED_FORMATS) =>
              /\ req'[r].resp = 400
              /\ Acted(r) => UNCHANGED <<sessions, files, dirs, disk>>]_vars

C7_Witness ==
    \E r \in Reqs :
        /\ Answered(r, "post", 400)
        /\ req[r].format \notin ALLOWED_FORMATS
        /\ Len(req[r].items) > 0

\* C8: in a batch with a valid format, an upload of a type outside
\* ALLOWED_MIME does not stop a valid upload of the same batch from being
\* converted, committed and returned
C8_BadMimeRejectedAlone ==
    \A r \in Reqs :
        (/\ req[r].kind = "post" /\ Quiet(req[r]) /\ req[r].alone
         /\ req[r].format \in ALLOWED_FORMATS) =>
            \A i, j \in Idx(req[r], "upload") :
                (/\ req[r].items[i].mime \notin ALLOWED_MIME
                 /\ req[r].items[j].mime \in ALLOWED_MIME) =>
                    /\ req[r].resp = 200
                    /\ CommitRow(req[r].sid, req[r].items[j], req[r].format)
                           \in files
                    /\ Descriptor(req[r].items[j], req[r].format)
                           \in Range(req[r].out)

\* C9: a re-convert pair whose source display name has no row fails alone:
\* a valid upload of the same batch is still committed and returned
C9_MissingSourceFailsAlone ==
    \A r \in Reqs :
        (req[r].kind = "post" /\ Quiet(req[r]) /\ req[r].alone) =>
            \A i \in Idx(req[r], "reconvert"), j \in Idx(req[r], "upload") :
                (/\ req[r].items[i].pc = "failed"
                 /\ req[r].items[i].src = NoRow) =>
                    /\ req[r].resp = 200
                    /\ CommitRow(req[r].sid, req[r].items[j], req[r].format)
                           \in files
                    /\ Descriptor(req[r].items[j], req[r].format)
                           \in Range(req[r].out)

\* C10: a step of a submit-batch changes table files or table sessions only
\* when it answers 200, and an answer is final: a batch that answers 500
\* has committed nothing
C10_FailedBatchCommitsNothing ==
    [][\A r \in Reqs :
          (req[r].kind = "post" /\ Acted(r)) =>
              /\ req'[r].resp # 200 => UNCHANGED <<sessions, files>>
              /\ req[r].resp # 0 =>
                    (req'[r].kind = "idle" \/ req'[r].resp = req[r].resp)]_vars

C10_Witness ==
    \E r \in Reqs :
        /\ Answered(r, "post", 500)
        /\ \E i \in 1..Len(req[r].items) : req[r].items[i].wroteThumb

\* the session has no row in either table, and neither its output directory
\* nor its original directory, nor a file below them, exists
Gone(sid) ==
    /\ RowsOf(sid) = {}
    /\ sid \notin sessions
    /\ \A area \in {ORIGINAL, OUTPUT} :
          /\ DirOf(sid, area) \notin dirs
          /\ \A p \in DOMAIN disk : ~IsPrefix(DirOf(sid, area), p)

\* C11: when a delete-one that resolved a record answers, every row the
\* session had when it began carrying the deleted display name and no other
\* step on the session having interleaved, the session has no row left in
\* files, no row in sessions, and neither of its two directories
C11_LastDeleteCleansUp ==
    \A r \in Reqs :
        (/\ req[r].kind = "del" /\ req[r].resp # 0 /\ req[r].alone
         /\ req[r].cur # NoRow
         /\ \A f \in req[r].rows : f.file_name = req[r].file) =>
            req[r].resp = 200 /\ Gone(req[r].sid)

C11_Witness ==
    \E r \in Reqs :
        /\ Answered(r, "del", 200) /\ req[r].alone
        /\ req[r].cur # NoRow
        /\ \A f \in req[r].rows : f.file_name = req[r].file
        /\ Gone(req[r].sid)

C13_DeleteOneBestEffort ==
    \A r \in Reqs :
        (req[r].kind = "del" /\ req[r].resp # 0 /\ req[r].alone) =>
            /\ req[r].resp = 200
            /\ req[r].cur # NoRow =>
                  \A f \in RowsOf(req[r].sid) : f.file_name # req[r].file

C13_Witness ==
    \E r \in Reqs :
        /\ Answered(r, "del", 200) /\ req[r].alone
        /\ req[r].cur # NoRow /\ ~req[r].had
        /\ req[r].cur \notin files

\* C14: a step of a list, a delete-one or a delete-all on a session that has
\* no row in either table and neither of its directories changes no table,
\* no directory and no file, and answers nothing but 200; a list on which
\* no other step interleaved returns no record
C14_UnknownSessionNoOp ==
    [][\A r \in Reqs, sid \in SessionIds :
          (/\ req'[r].kind \in {"get", "del", "delAll"} /\ req'[r].sid = sid
           /\ Acted(r) /\ Gone(sid)) =>
              /\ UNCHANGED <<sessions, files, dirs, disk>>
              /\ req'[r].resp \in {0, 200}
              /\ req'[r].alone => req'[r].list = {}]_vars

\* a list and a delete-all have answered on a session for which no directory
\* was ever made
C14_Witness ==
    \E r1, r2 \in Reqs :
        /\ Answered(r1, "get", 200) /\ req[r1].list = {}
        /\ Answered(r2, "delAll", 200)
        /\ req[r1].sid = req[r2].sid /\ Gone(req[r1].sid)
        /\ dirs = {} /\ disk = <<>>

\* C15: two re-convert pairs of one batch with the same source display name
\* and the same desired name are given distinct storage names and distinct
\* thumbnail names, and both their rows are in table files when the batch
\* has answered 200
C15_ReconvertNamesDistinct ==
    \A r \in Reqs :
        (Answered(r, "post", 200) /\ req[r].alone) =>
            \A i, j \in Idx(req[r], "reconvert") :
                (/\ i # j
                 /\ req[r].items[i].name = req[r].items[j].name
                 /\ req[r].items[i].to = req[r].items[j].to) =>
                    LET di == Descriptor(req[r].items[i], req[r].format)
                        dj == Descriptor(req[r].items[j], req[r].format)
                    IN /\ di.file # dj.file
                       /\ di.thumbnail # dj.thumbnail
                       /\ \E f, g \in RowsOf(req[r].sid) :
                             /\ f # g
                             /\ f.file_path = di.file
                             /\ g.file_path = dj.file

\* C16: the output file a re-convert has written is not the file of its
\* source record: its storage name differs from the source's file_path
C16_ReconvertSparesSource ==
    \A r \in Reqs :
        req[r].kind = "post" =>
            \A i \in Idx(req[r], "reconvert") :
                req[r].items[i].wroteOut =>
                    Descriptor(req[r].items[i], req[r].format).file
                        # req[r].items[i].src.file_path

\* C17: in the step in which a submit-batch commits, no other step of the
\* session having interleaved with it, the storage name of each of its
\* uploads differs from the file_path of every row the session already has
\* for the same format, and those rows stay in table files
C17_UploadNameDisambiguated ==
    [][\A r \in Reqs :
          (/\ req'[r].kind = "post" /\ req'[r].alone
           /\ req[r].resp = 0 /\ req'[r].resp = 200) =>
              \A i \in Idx(req'[r], "upload") :
                  \A f \in files :
                      (f.session_id = req'[r].sid
                       /\ f.format = req'[r].format) =>
                          /\ Descriptor(req'[r].items[i], req'[r].format).file
                                 # f.file_path
                          /\ f \in files']_vars

\* C18: two uploads of one batch with different file names are given
\* different storage names and different thumbnail names
C18_BatchNamesDistinct ==
    \A r \in Reqs :
        (req[r].kind = "post" /\ req[r].pc # "idle") =>
            \A i, j \in Idx(req[r], "upload") :
                (/\ req[r].items[i].name # req[r].items[j].name
                 /\ req[r].items[i].wroteThumb
                 /\ req[r].items[j].wroteThumb) =>
                    LET di == Descriptor(req[r].items[i], req[r].format)
                        dj == Descriptor(req[r].items[j], req[r].format)
                    IN di.file # dj.file /\ di.thumbnail # dj.thumbnail

\* C19: table files never holds two rows with the same session_id and the
\* same file_path
C19_UniqueStorageName ==
    \A f, g \in files :
        (f.session_id = g.session_id /\ f.file_path = g.file_path) => f = g

\* a batch has answered 200 and the row of one of its items has been
\* replaced by another row with the same file_path
C19_Witness ==
    \E r \in Reqs :
        /\ Answered(r, "post", 200)
        /\ \E i \in 1..Len(req[r].items) :
              LET row == CommitRow(req[r].sid, req[r].items[i], req[r].format)
              IN /\ row \notin files
                 /\ \E f \in files :
                       /\ f.session_id = row.session_id
                       /\ f.file_path = row.file_path

\* the file parameter has a "../" segment
HasDotDot(file) ==
    \E i \in 1..(Len(file) - 2) :
        /\ file[i] = "." /\ file[i + 1] = "." /\ file[i + 2] = "/"
        /\ (i = 1 \/ file[i - 1] = "/")

\* C20: a fetch whose file parameter has a "../" segment answers 400 and
\* nothing else, reads no file and returns no bytes
C20_DotDotRejected ==
    \A r \in Reqs :
        (req[r].kind = "fetch" /\ HasDotDot(req[r].file)) =>
            /\ req[r].pc # "read"
            /\ req[r].resp \in {0, 400}
            /\ req[r].body = NoBytes

\* C21: every directory and every file the handlers have made lies below
\* the storage root, and the directories a submit-batch, a list or a delete
\* works in, once made, lie inside the directory named by the sanitized
\* session identifier
C21_PathsInsideSession ==
    /\ \A p \in dirs \cup DOMAIN disk : p[1] # <<".", ".">>
    /\ \A r \in Reqs :
          (req[r].kind \in {"post", "get", "del", "delAll"}
           /\ req[r].sid # <<>>) =>
              \A area \in {ORIGINAL, OUTPUT} :
                  DirOf(req[r].sid, area) \in dirs =>
                      IsPrefix(<<safeSessionOf(req[r].sid)>>,
                               DirOf(req[r].sid, area))

C23_ThumbOnlyRecorded ==
    [][\A r \in Reqs :
          (/\ req'[r].kind = "thumb"
           /\ req[r].resp = 0 /\ req'[r].resp # 0
           /\ req'[r].body # NoBytes) =>
              \E f \in files :
                  /\ f.session_id = req'[r].sid
                  /\ f.thumbnail_path = safeFileOf(req'[r].file)]_vars

\* C24: a fetch-artifact answered 200 carries a disposition whose filename
\* is the file_name (display name) of the row it looked up
C24_DispositionIsDisplayName ==
    \A r \in Reqs :
        Answered(r, "fetch", 200) => req[r].disp = req[r].cur.file_name

\* what the store and the disk hold of session sid
OfSession(sid) ==
    <<RowsOf(sid), sid \in sessions, {d \in dirs : d[1] = sid},
      [p \in {q \in DOMAIN disk : q[1] = sid} |-> disk[p]]>>

\* C25: a step in which no request of session B takes part (none in flight
\* before or after it) leaves the rows, the session row, the directories
\* and the files of B as they were
C25_SessionsIndependent ==
    [][\A B \in PeerIds :
          (\A r \in Reqs : req[r].sid # B /\ req'[r].sid # B) =>
              OfSession(B)' = OfSession(B)]_vars

\* C26: every result of normalizeFileName consists of tokens of the safe
\* set, two calls with the same raw name give the same result, and a second
\* call on the result of the first gives that result again
C26_NormalizeSafeIdempotent ==
    \A r \in Reqs :
        req[r].kind = "norm" =>
            /\ \A k \in 1..Len(req[r].out) :
                   \A i \in 1..Len(req[r].out[k]) :
                       req[r].out[k][i] \in SafeToks
            /\ Len(req[r].out) = 2 => req[r].out[2] = req[r].out[1]
            /\ \A x \in Reqs :
                   (/\ req[x].kind = "norm" /\ req[x].file = req[r].file
                    /\ req[x].out # <<>> /\ req[r].out # <<>>) =>
                       req[x].out[1] = req[r].out[1]

\* a raw name with a separator and a blank has been normalized twice
C26_Witness ==
    \E r \in Reqs :
        /\ req[r].kind = "norm" /\ Len(req[r].out) = 2
        /\ \E i, j \in 1..Len(req[r].file) :
               req[r].file[i] = "/" /\ req[r].file[j] = " "
        /\ req[r].out[1] # req[r].file

\* C27: every request in flight is eventually answered
C27_EveryRequestAnswered ==
    \A r \in Reqs : (req[r].kind # "idle") ~> (req[r].resp # 0)

\* a batch with a rejected item has been answered while another request
\* is still in flight and unanswered
C27_Witness ==
    \E r, x \in Reqs :
        /\ req[r].kind = "post" /\ req[r].resp = 500
        /\ \E i \in 1..Len(req[r].items) : req[r].items[i].pc = "failed"
        /\ x # r /\ req[x].kind # "idle" /\ req[x].resp = 0

\* the last three tokens of a name
Suffix3(name) ==
    IF Len(name) < 3 THEN name ELSE SubSeq(name, Len(name) - 2, Len(name))

\* C28: a batch answered 200 returns one descriptor per submitted item, in
\* the order of the items, each with the requested format, a thumbnail name
\* ending in _thumb.webp, the size of the original bytes the item saved
\* (for a pair: the original_size of its source record) and the size of
\* the output bytes the item wrote
C28_OneDescriptorPerItem ==
    \A r \in Reqs :
        Answered(r, "post", 200) =>
            /\ Len(req[r].out) = Len(req[r].items)
            /\ \A k \in 1..Len(req[r].out) :
                  LET d == req[r].out[k]
                      it == req[r].items[k]
                  IN /\ d.name = (IF it.kind = "upload" THEN it.name
                                  ELSE it.to)
                     /\ d.format = req[r].format
                     /\ Suffix3(d.thumbnail) = <<"_thumb", ".", "webp">>
                     /\ d.originalSize =
                           (IF it.kind = "upload" THEN SizeOf(Raw(it.name))
                            ELSE it.src.original_size)
                     /\ d.convertedSize
                           = SizeOf(ConvertTo(it.buf, req[r].format))

\* C29: in the step in which a pair reads its source, the bytes are those
\* of the source record's output file when that file exists, otherwise
\* those of the original file the record derives from when that one
\* exists, and the item fails only when neither exists
C29_ReconvertSourceFallback ==
    [][\A r \in Reqs : \A i \in 1..Len(req[r].items) :
          (/\ req[r].kind = "post" /\ req'[r].kind = "post"
           /\ req[r].items[i].kind = "reconvert"
           /\ req[r].items[i].pc = "read"
           /\ req'[r].items[i].pc # "read") =>
              LET it == req[r].items[i]
                  o == PathOf(req[r].sid, OUTPUT, it.src.file_path)
                  g == PathOf(req[r].sid, ORIGINAL, it.src.origin)
                  after == req'[r].items[i]
              IN /\ Exists(o) => after.pc = "out" /\ after.buf = disk[o]
                 /\ (~Exists(o) /\ Exists(g)) =>
                        after.pc = "out" /\ after.buf = disk[g]
                 /\ after.pc = "failed" => ~Exists(o) /\ ~Exists(g)]_vars

\* C30: when two batches of a session have both been answered 200 and an
\* item of each has the same storage name, the session has one row with
\* that name, and that row is the one committed for one of the two items,
\* whose output bytes and thumbnail bytes are the ones on disk and whose
\* sizes are the ones in the row
C30_SurvivingRecordOwnsFiles ==
    \A r, x \in Reqs :
        (/\ r # x /\ Answered(r, "post", 200) /\ Answered(x, "post", 200)
         /\ req[r].sid = req[x].sid) =>
            \A i \in 1..Len(req[r].items), j \in 1..Len(req[x].items) :
                LET sid == req[r].sid
                    di == Descriptor(req[r].items[i], req[r].format)
                    dj == Descriptor(req[x].items[j], req[x].format)
                    rows == {f \in RowsOf(sid) : f.file_path = di.file}
                    Owns(f, q, k) ==
                        LET it == req[q].items[k]
                            own == ConvertTo(it.buf, req[q].format)
                            o == PathOf(sid, OUTPUT, f.file_path)
                            t == PathOf(sid, OUTPUT, f.thumbnail_path)
                        IN /\ f = CommitRow(sid, it, req[q].format)
                           /\ Exists(o) /\ disk[o] = own
                           /\ Exists(t) /\ disk[t] = ThumbOf(it.buf)
                           /\ f.converted_size = SizeOf(own)
                           /\ f.original_size =
                                 (IF it.kind = "upload"
                                  THEN SizeOf(Raw(it.name))
                                  ELSE it.src.original_size)
                IN di.file = dj.file =>
                      /\ Cardinality(rows) = 1
                      /\ \A f \in rows : Owns(f, r, i) \/ Owns(f, x, j)

\* C32: a step of a delete-one that unlinks a file or deletes its rows
\* leaves every row of another display name that was listable before the
\* step in the table and listable
C32_DeleteSparesOtherRecords ==
    [][\A r \in Reqs :
          (/\ req[r].kind = "del"
           /\ req[r].pc \in {"unlinkFile", "unlinkThumb", "unlinkOrig"}
           /\ req'[r].pc # req[r].pc) =>
              \A g \in RowsOf(req[r].sid) :
                  (g.file_name # req[r].file /\ Accessible(req[r].sid, g)) =>
                      /\ g \in files'
                      /\ Exists(PathOf(g.session_id, OUTPUT, g.file_path))'
                      /\ Exists(PathOf(g.session_id, OUTPUT,
                                       g.thumbnail_path))']_vars

\* C34: a step of a delete-one that deletes rows deletes no row but the one
\* it looked up, and the output file of every row it deletes is gone
C34_DeleteOneRecord ==
    [][\A r \in Reqs :
          (req[r].kind = "del" /\ Acted(r) /\ files' # files) =>
              /\ files \ files' \subseteq {req[r].cur}
              /\ \A g \in files \ files' :
                     ~Exists(PathOf(g.session_id, OUTPUT, g.file_path))']_vars

\* C35: when a batch has been answered 200 and nothing else has worked on
\* its session meanwhile, every descriptor of the response has a row of
\* the session with its display name, storage name and thumbnail name
C35_DescriptorsHaveRecords ==
    \A r \in Reqs :
        (Answered(r, "post", 200) /\ req[r].alone) =>
            \A d \in Range(req[r].out) :
                \E f \in RowsOf(req[r].sid) :
                    /\ f.file_name = d.name
                    /\ f.file_path = d.file
                    /\ f.thumbnail_path = d.thumbnail

\* C38: when a fetch is answered and the session it was sent for, taken as
\* sent, has a row with the requested storage name whose two files exist
\* (a row the list returns), the answer is 200 with the bytes of that
\* row's output file
C38_FetchFindsListed ==
    [][\A r \in Reqs :
          (req'[r].kind = "fetch" /\ req[r].resp = 0 /\ req'[r].resp # 0) =>
              \A g \in files :
                  (/\ g.session_id = req'[r].session
                   /\ g.file_path = req'[r].file
                   /\ Accessible(g.session_id, g)) =>
                      /\ req'[r].resp = 200
                      /\ req'[r].body =
                            disk[PathOf(g.session_id, OUTPUT, g.file_path)]]_vars

\* C37: a cleanup step of a delete-one (the removal of the output
\* directory, or of the original directory and the session row) taken
\* while the session has a row in table files removes no directory, no
\* file and no session row
C37_CleanupSparesCommitted ==
    [][\A r \in Reqs :
          (/\ req[r].kind = "del" /\ req[r].pc \in {"rmOut", "rmOrig"}
           /\ Acted(r) /\ RowsOf(req[r].sid) # {}) =>
              dirs' = dirs /\ disk' = disk /\ sessions' = sessions]_vars

\* C33: a step of a list deletes no row whose output file and thumbnail
\* file both exist; and when the list returns, nothing else having worked
\* on the session meanwhile, every descriptor it returns is that of a row
\* of the session
C33_ListPrunesOnlyStale ==
    [][\A r \in Reqs :
          (req'[r].kind = "get" /\ Acted(r)) =>
              /\ \A f \in files :
                     (f.session_id = req'[r].sid
                      /\ Accessible(f.session_id, f)) => f \in files'
              /\ (req'[r].resp = 200 /\ req'[r].alone) =>
                     \A d \in req'[r].list :
                         \E f \in files' :
                             f.session_id = req'[r].sid /\ Listed(f) = d]_vars

\* the status changes of the state machine of a queue entry
Moves ==
    {<<"waiting", "converting">>, <<"converting", "converted">>,
     <<"converting", "error">>}

\* C31: an entry that stays in the queue keeps its status or moves
\* waiting -> converting -> converted or error (so a converted entry stays
\* converted); and the step that handles the response of a batch sets
\* isConverting to false and leaves every entry sent in the batch in the
\* queue, all converted or all error
C31_QueueStatusMoves ==
    [][/\ \A i \in 1..Len(queue), j \in 1..Len(queue') :
             queue[i].key = queue'[j].key =>
                 \/ queue'[j].status = queue[i].status
                 \/ <<queue[i].status, queue'[j].status>> \in Moves
       /\ \A c \in calls \ calls' :
             c.kind = "post" =>
                 /\ isConverting' = FALSE
                 /\ \E st \in {"converted", "error"} :
                        \A k \in 1..Len(c.sent) :
                            \E j \in 1..Len(queue') :
                                /\ queue'[j].key = c.sent[k].key
                                /\ queue'[j].status = st]_vars

\* C36: the step that handles the response of a batch leaves every entry
\* that was not sent in the batch in the queue as it was, an entry added as
\* waiting while the batch was in flight included
C36_ResponseSparesOthers ==
    [][\A c \in calls \ calls' :
          c.kind = "post" =>
              \A i \in 1..Len(queue) :
                  (\A k \in 1..Len(c.sent) : c.sent[k].key # queue[i].key) =>
                      \E j \in 1..Len(queue') : queue'[j] = queue[i]]_vars

====
